---- MODULE Spec2Model ----
(***************************************************************************)
(* Model of sphinx_content.py: the Sphinx docstring checker.               *)
(*                                                                         *)
(* A text (a Python str) is a sequence of lexemes.  A lexeme is a piece of *)
(* the text: one of the characters ":", " ", "\n", a word such as "param"  *)
(* or "x", or a bracketed placeholder such as "[description]".  The text   *)
(* is the concatenation of its lexemes.  The lexemes are chosen so that    *)
(* every literal of every regular expression of the program begins and     *)
(* ends at a lexeme boundary of every text, hence matching lexeme by       *)
(* lexeme is matching character by character.                              *)
(***************************************************************************)
EXTENDS Integers, Sequences, FiniteSets, TLC

\* ------------------------------------------------------------------------
\* Bounds of the model
\* ------------------------------------------------------------------------
MaxParts == 3
MaxPaths == 2

\* ------------------------------------------------------------------------
\* Python values
\* ------------------------------------------------------------------------
PyNone == [isNone |-> TRUE, int |-> 0]
PyInt(n) == [isNone |-> FALSE, int |-> n]
Truthy(v) == ~v.isNone /\ v.int # 0

NoneStr == [isNone |-> TRUE, str |-> <<>>]
PyStr(s) == [isNone |-> FALSE, str |-> s]

\* ------------------------------------------------------------------------
\* str helpers
\* ------------------------------------------------------------------------
IsSpace(c) == c \in {" ", "\n"}

SubStr(s, a, b) == [i \in 1..(b - a) |-> s[a + i - 1]]

RECURSIVE Strip(_)
Strip(s) ==
  IF s = <<>> THEN s
  ELSE IF IsSpace(Head(s)) THEN Strip(Tail(s))
  ELSE IF IsSpace(s[Len(s)]) THEN Strip(SubSeq(s, 1, Len(s) - 1))
  ELSE s

RECURSIVE LStrip(_)
LStrip(s) == IF s # <<>> /\ IsSpace(Head(s)) THEN LStrip(Tail(s)) ELSE s

RECURSIVE Split(_, _)
Split(s, sep) ==
  IF \A i \in 1..Len(s) : s[i] # sep THEN <<s>>
  ELSE LET i == CHOOSE k \in 1..Len(s) : s[k] = sep /\ \A j \in 1..(k - 1) : s[j] # sep
       IN <<SubSeq(s, 1, i - 1)>> \o Split(SubSeq(s, i + 1, Len(s)), sep)

RECURSIVE Join(_, _)
Join(lines, sep) ==
  IF lines = <<>> THEN <<>>
  ELSE IF Len(lines) = 1 THEN lines[1]
  ELSE lines[1] \o <<sep>> \o Join(Tail(lines), sep)

StartsWith(s, prefix) ==
  Len(s) >= Len(prefix) /\ SubSeq(s, 1, Len(prefix)) = prefix

\* ------------------------------------------------------------------------
\* Regular expressions (the subset of Python's re the program uses)
\* ------------------------------------------------------------------------
Lit(c) == [k |-> "lit", c |-> c, alts |-> <<>>]
DotStar == [k |-> "dotstar", c |-> "", alts |-> <<>>]
NonSpacePlus == [k |-> "nonspaceplus", c |-> "", alts |-> <<>>]
SpaceStar == [k |-> "spacestar", c |-> "", alts |-> <<>>]
BlankStar == [k |-> "blankstar", c |-> "", alts |-> <<>>]
Eol == [k |-> "eol", c |-> "", alts |-> <<>>]
Alt(alts) == [k |-> "alt", c |-> "", alts |-> alts]

DotAll(c) == TRUE

\* "." matches anything but a newline
Dot(c) == c # "\n"

ClassOf(a, c) ==
  CASE a.k = "dotstar" -> Dot(c)
    [] a.k = "nonspaceplus" -> ~IsSpace(c)
    [] a.k = "spacestar" -> IsSpace(c)
    [] a.k = "blankstar" -> c = " "
    [] OTHER -> FALSE

MinRep(a) == IF a.k = "nonspaceplus" THEN 1 ELSE 0

RECURSIVE Run(_, _, _)
Run(a, s, p) == IF p <= Len(s) /\ ClassOf(a, s[p]) THEN 1 + Run(a, s, p + 1) ELSE 0

AtEol(s, p) == p = Len(s) + 1 \/ s[p] = "\n"

RECURSIVE Ends(_, _, _)
RECURSIVE Greedy(_, _, _, _, _)
RECURSIVE Branches(_, _, _, _)
RECURSIVE Continue(_, _, _)

Ends(re, s, p) ==
  IF re = <<>> THEN <<p>>
  ELSE LET a == Head(re)
           rest == Tail(re)
       IN CASE a.k = "lit" ->
                 IF p <= Len(s) /\ s[p] = a.c THEN Ends(rest, s, p + 1) ELSE <<>>
            [] a.k = "eol" ->
                 IF AtEol(s, p) THEN Ends(rest, s, p) ELSE <<>>
            [] a.k = "alt" -> Branches(a.alts, rest, s, p)
            [] OTHER -> Greedy(rest, s, p, Run(a, s, p), MinRep(a))

Greedy(rest, s, p, n, min) ==
  IF n < min THEN <<>>
  ELSE Ends(rest, s, p + n) \o Greedy(rest, s, p, n - 1, min)

Branches(alts, rest, s, p) ==
  IF alts = <<>> THEN <<>>
  ELSE Continue(Ends(Head(alts), s, p), rest, s) \o Branches(Tail(alts), rest, s, p)

Continue(ends, rest, s) ==
  IF ends = <<>> THEN <<>>
  ELSE Ends(rest, s, Head(ends)) \o Continue(Tail(ends), rest, s)

Search(re, s) == \E p \in 1..(Len(s) + 1) : Ends(re, s, p) # <<>>

\* re.match: the pattern matches at the start of the string
Match(re, s) == Ends(re, s, 1) # <<>>

RECURSIVE FindAllFrom(_, _, _)
FindAllFrom(re, s, p) ==
  IF p > Len(s) + 1 THEN <<>>
  ELSE LET ends == Ends(re, s, p)
       IN IF ends = <<>> THEN FindAllFrom(re, s, p + 1)
          ELSE LET e == Head(ends)
               IN <<[pos |-> p, str |-> SubStr(s, p, e)]>>
                    \o FindAllFrom(re, s, IF e > p THEN e ELSE p + 1)

FindAll(re, s) == FindAllFrom(re, s, 1)

\* ------------------------------------------------------------------------
\* ParseFunctionDef.regexes
\* ------------------------------------------------------------------------
RegexNames == <<"param", "type", "meta", "raises", "returns", "rtype", "yield">>

regexes ==
  [param   |-> <<Lit(":"), Lit("param"), Lit(" "), DotStar, Lit(":")>>,
   type    |-> <<Lit(":"), Lit("type"), Lit(" "), NonSpacePlus, Lit(":")>>,
   meta    |-> <<Lit(":"), Lit("meta"), Lit(" "), NonSpacePlus, Lit(":")>>,
   raises  |-> <<Lit(":"), Lit("raises"), Lit(" "), DotStar, Lit(":")>>,
   returns |-> <<Lit(":"), Lit("returns"), Lit(":")>>,
   rtype   |-> <<Lit(":"), Lit("rtype"), Lit(":")>>,
   yield   |-> <<Lit(":"), Lit("yield"), Lit(":")>>]

RegexValues(suffix) == [i \in 1..Len(RegexNames) |-> regexes[RegexNames[i]] \o suffix]

\* ------------------------------------------------------------------------
\* ast nodes and ParseFunctionDef records
\* ------------------------------------------------------------------------
NoName == "<no name>"
NoLineno == -1

DocstringTypes == {"AsyncFunctionDef", "FunctionDef", "ClassDef", "Module"}

\* inspect.cleandoc, which ast.get_docstring applies to the string constant
Indent(line) == Len(line) - Len(LStrip(line))

Margins(lines) ==
  {Indent(lines[i]) : i \in {j \in 2..Len(lines) : LStrip(lines[j]) # <<>>}}

Min(S) == CHOOSE m \in S : \A n \in S : m <= n

RECURSIVE PopEmptyLast(_)
PopEmptyLast(lines) ==
  IF lines # <<>> /\ lines[Len(lines)] = <<>>
  THEN PopEmptyLast(SubSeq(lines, 1, Len(lines) - 1)) ELSE lines

RECURSIVE PopEmptyFirst(_)
PopEmptyFirst(lines) ==
  IF lines # <<>> /\ Head(lines) = <<>> THEN PopEmptyFirst(Tail(lines)) ELSE lines

Cleandoc(doc) ==
  LET lines == Split(doc, "\n")
      margins == Margins(lines)
      dedented == [i \in 1..Len(lines) |->
                     IF i = 1 THEN LStrip(lines[1])
                     ELSE IF margins = {} THEN lines[i]
                     ELSE SubSeq(lines[i], Min(margins) + 1, Len(lines[i]))]
  IN Join(PopEmptyFirst(PopEmptyLast(dedented)), "\n")

GetDocstringNeverRaises(node) == FALSE

\* ast.get_docstring raises TypeError for a node that cannot have a docstring
GetDocstringRaises(node) == node.type \notin DocstringTypes

GetDocstring(node) ==
  IF node.first.isNone THEN NoneStr ELSE PyStr(Cleandoc(node.first.str))

docstring(self) ==
  IF GetDocstringRaises(self.function_def) THEN NoneStr
  ELSE GetDocstring(self.function_def)

name(self) ==
  IF self.function_def.name = NoName THEN "" ELSE self.function_def.name

lineno(self) ==
  IF self.function_def.lineno = NoLineno THEN 0 ELSE self.function_def.lineno

ParseFunctionDef(function_def, path) ==
  [function_def |-> function_def, errors |-> <<>>, path |-> path]

\* ------------------------------------------------------------------------
\* The four rules.  A diagnostic is the record of one error string:
\* its category, its detail and (history only) the offset of the match
\* in the docstring that produced it, 0 when it has none.
\* ------------------------------------------------------------------------
Error(cat, detail, pos) == [cat |-> cat, detail |-> detail, pos |-> pos]

PlaceholderToEol(word) ==
  <<Lit(":"), DotStar, Lit(":"), BlankStar, Lit(word), BlankStar, Eol>>

Placeholder(word) == <<Lit(":"), DotStar, Lit(":"), BlankStar, Lit(word)>>

DefaultsFound(doc) ==
  FindAll(<<Lit("[summary]")>>, doc)
    \o FindAll(Placeholder("[description]"), doc)
    \o FindAll(Placeholder("[type]"), doc)

check_defaults(doc) ==
  LET errors == DefaultsFound(doc)
  IN [i \in 1..Len(errors) |->
        Error("default-docstring-error", errors[i].str, errors[i].pos)]

cehck_empty_docstring(doc) ==
  IF Strip(doc) = <<>>
  THEN <<Error("empty-docstring-error", <<"no docstring content">>, 0)>>
  ELSE <<>>

EmptyFieldRegex == <<Alt(RegexValues(<<SpaceStar, Eol>>))>>

IsMetaNever(line) == FALSE

IsMeta(line) == StartsWith(line, <<":", "meta">>)

RECURSIVE EmptyFieldErrors(_)
EmptyFieldErrors(matches) ==
  IF matches = <<>> THEN <<>>
  ELSE LET line == Head(matches)
       IN (IF IsMeta(line.str) THEN <<>>
           ELSE <<Error("missing-description-error", line.str, line.pos)>>)
            \o EmptyFieldErrors(Tail(matches))

check_empty_fields(doc) == EmptyFieldErrors(FindAll(EmptyFieldRegex, doc))

NewlineRegex == <<DotStar, Lit("\n"), Alt(RegexValues(<<DotStar>>))>>

\* the unpacking of matches[0].split("\n") into two names raises ValueError
\* unless the split has exactly two parts
NewlinesRaises(doc) ==
  LET matches == FindAll(NewlineRegex, doc)
  IN matches # <<>> /\ Len(Split(matches[1].str, "\n")) # 2

check_newlines_last(doc) ==
  LET matches == FindAll(NewlineRegex, doc)
  IN IF matches = <<>> THEN <<>>
     ELSE LET parts == Split(matches[Len(matches)].str, "\n")
          IN IF Strip(parts[1]) # <<>>
             THEN <<Error("missing-newline-error", parts[2], matches[Len(matches)].pos)>>
             ELSE <<>>

check_newlines(doc) ==
  LET matches == FindAll(NewlineRegex, doc)
  IN IF matches = <<>> THEN <<>>
     ELSE LET parts == Split(matches[1].str, "\n")
              prev_line == parts[1]
              sphinx_line == parts[2]
          IN IF Strip(prev_line) # <<>>
             THEN <<Error("missing-newline-error", sphinx_line, matches[1].pos)>>
             ELSE <<>>

\* ------------------------------------------------------------------------
\* function_definitions: every node of ast.walk is wrapped, then the list
\* is sorted (stably) by line number
\* ------------------------------------------------------------------------
RECURSIVE Insert(_, _)
Insert(sorted, x) ==
  IF sorted = <<>> THEN <<x>>
  ELSE IF lineno(sorted[Len(sorted)]) <= lineno(x) THEN Append(sorted, x)
  ELSE Append(Insert(SubSeq(sorted, 1, Len(sorted) - 1), x), sorted[Len(sorted)])

RECURSIVE SortByLineno(_)
SortByLineno(fs) ==
  IF fs = <<>> THEN <<>>
  ELSE Insert(SortByLineno(SubSeq(fs, 1, Len(fs) - 1)), fs[Len(fs)])

function_definitions(fpath) ==
  SortByLineno([n \in 1..Len(fpath.walk) |-> ParseFunctionDef(fpath.walk[n], fpath.fname)])

all(codes) == \A n \in 1..Len(codes) : Truthy(codes[n])

any(codes) == \E n \in 1..Len(codes) : Truthy(codes[n])

RunChecksReversed ==
  <<"check_newlines", "check_empty_fields", "cehck_empty_docstring", "check_defaults">>

\* the order in which run_checks calls the rules
RunChecksOrder ==
  <<"check_defaults", "cehck_empty_docstring", "check_empty_fields", "check_newlines">>

FirstRule == RunChecksOrder[1]

RuleAfter(rule) ==
  LET n == CHOOSE m \in 1..Len(RunChecksOrder) : RunChecksOrder[m] = rule
  IN IF n = Len(RunChecksOrder) THEN "print_errors" ELSE RunChecksOrder[n + 1]

\* ------------------------------------------------------------------------
\* State
\* ------------------------------------------------------------------------
VARIABLES
  opts,         \* opts.path, the command line's paths
  pathIdx,      \* main: position of the loop over opts.path
  paths,        \* main: the files of the current path still to check
  functions,    \* check_docstrings: the records of the file being checked
  idx,          \* check_docstrings: position of the loop over functions
  returncodes,  \* check_docstrings: the values run_checks returned so far
  errors,       \* main: the error counter
  pc,           \* the position of the program
  stdout,       \* the lines printed
  ret,          \* the value the last run_checks returned
  status,       \* the value main returned, None before it returns
  ran,          \* history: the rules run on the current record, in order
  raised,       \* an exception left a rule
  test          \* test_regexes: the parametrized case and its outcome

vars == <<opts, pathIdx, paths, functions, idx, returncodes, errors, pc,
          stdout, ret, status, ran, raised, test>>

NoTest == [name |-> "", line |-> <<>>, done |-> FALSE, matched |-> FALSE]

StartWith(o) ==
  /\ opts = o
  /\ pathIdx = 1
  /\ paths = <<>>
  /\ functions = <<>>
  /\ idx = 1
  /\ returncodes = <<>>
  /\ errors = 0
  /\ pc = "main"
  /\ stdout = <<>>
  /\ ret = PyNone
  /\ status = PyNone
  /\ ran = <<>>
  /\ raised = FALSE
  /\ test = NoTest

Out(kind, path, nm, line, error) ==
  [kind |-> kind, path |-> path, name |-> nm, lineno |-> line, error |-> error]

self == functions[idx]
doc == docstring(self).str

\* ------------------------------------------------------------------------
\* main
\* ------------------------------------------------------------------------
MainDir ==
  /\ pc = "main" /\ paths = <<>> /\ pathIdx <= Len(opts)
  /\ opts[pathIdx].is_dir
  /\ paths' = opts[pathIdx].glob
  /\ pathIdx' = pathIdx + 1
  /\ UNCHANGED <<opts, functions, idx, returncodes, errors, pc, stdout, ret,
                 status, ran, raised, test>>

MainFile ==
  /\ pc = "main" /\ paths = <<>> /\ pathIdx <= Len(opts)
  /\ ~opts[pathIdx].is_dir
  /\ paths' = <<opts[pathIdx].file>>
  /\ pathIdx' = pathIdx + 1
  /\ UNCHANGED <<opts, functions, idx, returncodes, errors, pc, stdout, ret,
                 status, ran, raised, test>>

MainReturn ==
  /\ pc = "main" /\ paths = <<>> /\ pathIdx > Len(opts)
  /\ status' = IF errors # 0 THEN PyInt(1) ELSE PyInt(0)
  /\ pc' = "exit"
  /\ UNCHANGED <<opts, pathIdx, paths, functions, idx, returncodes, errors,
                 stdout, ret, ran, raised, test>>

\* ------------------------------------------------------------------------
\* check_docstrings
\* ------------------------------------------------------------------------
CheckDocstrings ==
  /\ pc = "main" /\ paths # <<>>
  /\ stdout' = Append(stdout, Out("info", Head(paths).fname, "", 0, <<>>))
  /\ functions' = function_definitions(Head(paths))
  /\ idx' = 1
  /\ returncodes' = <<>>
  /\ pc' = "run_checks"
  /\ UNCHANGED <<opts, pathIdx, paths, errors, ret, status, ran, raised, test>>

CheckDocstringsReturn ==
  /\ pc = "run_checks" /\ idx > Len(functions)
  /\ errors' = errors + (IF any(returncodes) THEN 1 ELSE 0)
  /\ paths' = Tail(paths)
  /\ pc' = "main"
  /\ UNCHANGED <<opts, pathIdx, functions, idx, returncodes, stdout, ret,
                 status, ran, raised, test>>

\* ------------------------------------------------------------------------
\* ParseFunctionDef.run_checks
\* ------------------------------------------------------------------------
RunChecksNoDocstring ==
  /\ pc = "run_checks" /\ idx <= Len(functions)
  /\ docstring(self).isNone
  /\ ret' = PyNone
  /\ returncodes' = Append(returncodes, PyNone)
  /\ idx' = idx + 1
  /\ ran' = <<>>
  /\ UNCHANGED <<opts, pathIdx, paths, functions, errors, pc, stdout, status,
                 raised, test>>

RunChecks ==
  /\ pc = "run_checks" /\ idx <= Len(functions)
  /\ ~docstring(self).isNone
  /\ ran' = <<>>
  /\ pc' = FirstRule
  /\ UNCHANGED <<opts, pathIdx, paths, functions, idx, returncodes, errors,
                 stdout, ret, status, raised, test>>

Appended(found) == [functions EXCEPT ![idx].errors = @ \o found]

CheckDefaults ==
  /\ pc = "check_defaults"
  /\ functions' = Appended(check_defaults(doc))
  /\ ran' = Append(ran, "check_defaults")
  /\ pc' = RuleAfter("check_defaults")
  /\ UNCHANGED <<opts, pathIdx, paths, idx, returncodes, errors, stdout, ret,
                 status, raised, test>>

CehckEmptyDocstring ==
  /\ pc = "cehck_empty_docstring"
  /\ functions' = Appended(cehck_empty_docstring(doc))
  /\ ran' = Append(ran, "cehck_empty_docstring")
  /\ pc' = RuleAfter("cehck_empty_docstring")
  /\ UNCHANGED <<opts, pathIdx, paths, idx, returncodes, errors, stdout, ret,
                 status, raised, test>>

CheckEmptyFields ==
  /\ pc = "check_empty_fields"
  /\ functions' = Appended(check_empty_fields(doc))
  /\ ran' = Append(ran, "check_empty_fields")
  /\ pc' = RuleAfter("check_empty_fields")
  /\ UNCHANGED <<opts, pathIdx, paths, idx, returncodes, errors, stdout, ret,
                 status, raised, test>>

\* the only statement of the rules that can raise is the unpacking of the
\* split in check_newlines; the exception would leave main as a traceback
CheckNewlines ==
  /\ pc = "check_newlines"
  /\ raised' = NewlinesRaises(doc)
  /\ functions' = IF NewlinesRaises(doc) THEN functions
                  ELSE Appended(check_newlines(doc))
  /\ ran' = Append(ran, "check_newlines")
  /\ pc' = IF NewlinesRaises(doc) THEN "traceback" ELSE RuleAfter("check_newlines")
  /\ UNCHANGED <<opts, pathIdx, paths, idx, returncodes, errors, stdout, ret,
                 status, test>>

print_errors(rec) ==
  IF rec.errors = <<>> THEN <<>>
  ELSE <<Out("header", rec.path, name(rec), lineno(rec), <<>>)>>
         \o [n \in 1..Len(rec.errors) |-> Out("error", "", "", 0, rec.errors[n])]
         \o <<Out("blank", "", "", 0, <<>>)>>

PrintErrors ==
  /\ pc = "print_errors"
  /\ stdout' = stdout \o print_errors(self)
  /\ ret' = PyInt(Len(self.errors))
  /\ returncodes' = Append(returncodes, PyInt(Len(self.errors)))
  /\ idx' = idx + 1
  /\ pc' = "run_checks"
  /\ UNCHANGED <<opts, pathIdx, paths, functions, errors, status, ran, raised,
                 test>>

Next ==
  \/ MainDir
  \/ MainFile
  \/ MainReturn
  \/ CheckDocstrings
  \/ CheckDocstringsReturn
  \/ RunChecksNoDocstring
  \/ RunChecks
  \/ CheckDefaults
  \/ CehckEmptyDocstring
  \/ CheckEmptyFields
  \/ CheckNewlines
  \/ PrintErrors

\* ------------------------------------------------------------------------
\* Inputs: parsed files and the paths of a command line
\* ------------------------------------------------------------------------
BSeq(S, n) == UNION {[1..m -> S] : m \in 0..n}

Node(type, nm, line, first) ==
  [type |-> type, name |-> nm, lineno |-> line, first |-> first]

\* the Expr statement that holds the docstring of a node is a node of the
\* walk as well; it holds the same string constant
ExprOf(node) ==
  Node("Expr", NoName, IF node.lineno = NoLineno THEN 1 ELSE node.lineno + 1,
       node.first)

RECURSIVE ExprsOf(_)
ExprsOf(nodes) ==
  IF nodes = <<>> THEN <<>>
  ELSE (IF Head(nodes).first.isNone THEN <<>> ELSE <<ExprOf(Head(nodes))>>)
         \o ExprsOf(Tail(nodes))

\* ast.walk(ast.parse(...)): breadth first, the module root first
Walk(moduleDoc, defs) ==
  LET module == Node("Module", NoName, NoLineno, moduleDoc)
  IN <<module>> \o ExprsOf(<<module>>) \o defs \o ExprsOf(defs)

File(fname, moduleDoc, defs) == [fname |-> fname, walk |-> Walk(moduleDoc, defs)]

PathOfFile(file) == [is_dir |-> FALSE, file |-> file, glob |-> <<>>]
PathOfDir(files) == [is_dir |-> TRUE, file |-> File("", NoneStr, <<>>), glob |-> files]

\* docstrings of tests/fixtures/sample_file.py
DocOk ==
  <<"x", "\n", "\n", ":", "returns", ":", " ", "x", "\n", ":", "rtype", ":", " ", "x">>
DocSummary == <<"[summary]">>
DocEmpty == <<>>
DocMultiFail == <<"[summary]", "\n", ":", "returns", ":", " ", "x">>

FilePlain == File("plain.py", NoneStr, <<Node("FunctionDef", "run", 1, NoneStr)>>)
FileModuleDoc == File("module.py", PyStr(DocSummary), <<>>)
FileNested ==
  File("nested.py", PyStr(DocOk),
       <<Node("ClassDef", "WithDocstrings", 2, PyStr(DocOk)),
         Node("FunctionDef", "multi_fail", 9, PyStr(DocMultiFail)),
         Node("AsyncFunctionDef", "run", 4, PyStr(DocOk))>>)
FileEmpty ==
  File("empty.py", NoneStr, <<Node("ClassDef", "EmptyClassDocstring", 1, PyStr(DocEmpty))>>)

PathSet ==
  {PathOfFile(FilePlain), PathOfFile(FileModuleDoc), PathOfFile(FileNested),
   PathOfFile(FileEmpty), PathOfDir(<<>>), PathOfDir(<<FilePlain, FileEmpty>>)}

Init == \E o \in BSeq(PathSet, MaxPaths) : StartWith(o)

Spec == Init /\ [][Next]_vars

\* one function whose docstring is made of the given parts, one per line,
\* checked as a file of the command line next to an empty directory
OneDocstring(parts) ==
  <<PathOfFile(File("f.py", NoneStr,
                    <<Node("FunctionDef", "f", 1, PyStr(Join(parts, "\n")))>>)),
    PathOfDir(<<>>)>>

\* ------------------------------------------------------------------------
\* Properties of the driver (specification Spec)
\* ------------------------------------------------------------------------
FilesOfPath(path) == IF path.is_dir THEN path.glob ELSE <<path.file>>

Diagnostics(node) ==
  LET d == docstring(ParseFunctionDef(node, ""))
  IN IF d.isNone THEN <<>>
     ELSE check_defaults(d.str) \o cehck_empty_docstring(d.str)
            \o check_empty_fields(d.str) \o check_newlines(d.str)

FileHasDiagnostic(file) ==
  \E n \in 1..Len(file.walk) : Diagnostics(file.walk[n]) # <<>>

PathHasDiagnostic(path) ==
  \E f \in 1..Len(FilesOfPath(path)) : FileHasDiagnostic(FilesOfPath(path)[f])

\* C1: main returns 1 if and only if some record of some file of the
\* invocation has at least one diagnostic, and 0 otherwise (also when no
\* path is given and when no record has a docstring).
C1_ExitStatus ==
  pc = "exit" =>
    status = PyInt(IF \E p \in 1..Len(opts) : PathHasDiagnostic(opts[p]) THEN 1 ELSE 0)

C1_Witness ==
  /\ pc = "exit"
  /\ status = PyInt(1)
  /\ \E p, q \in 1..Len(opts) : PathHasDiagnostic(opts[p]) /\ ~PathHasDiagnostic(opts[q])

\* C2: run_checks always returns the number of diagnostics of the record,
\* which is 0 for a record with no docstring.
C2_ReturnsCount ==
  (pc = "run_checks" /\ idx > 1) => ret = PyInt(Len(functions[idx - 1].errors))

DefinitionTypes == {"ClassDef", "FunctionDef", "AsyncFunctionDef"}

\* C6 as claimed: function_definitions returns records of function, async
\* function and class definitions only.
C6_OnlyDefinitions ==
  \A n \in 1..Len(functions) : functions[n].function_def.type \in DefinitionTypes

Count(seq, x) == Cardinality({n \in 1..Len(seq) : seq[n] = x})

\* C6 as amended: function_definitions returns one record for every node of
\* the tree walk, whatever its kind, and only the records of function, async
\* function and class definitions and of the module root get diagnostics.
C6_EveryNode ==
  /\ pc = "run_checks" =>
       /\ Len(functions) = Len(Head(paths).walk)
       /\ \A n \in 1..Len(functions) :
            Count([m \in 1..Len(functions) |-> functions[m].function_def],
                  functions[n].function_def)
              = Count(Head(paths).walk, functions[n].function_def)
  /\ \A n \in 1..Len(functions) :
       functions[n].errors # <<>> =>
         functions[n].function_def.type \in DefinitionTypes \cup {"Module"}

C6_Witness ==
  /\ pc = "run_checks"
  /\ \E n \in 1..Len(functions) :
       functions[n].function_def.type = "Module" /\ functions[n].errors # <<>>
  /\ \E n \in 1..Len(functions) : functions[n].function_def.type = "Expr"

\* ------------------------------------------------------------------------
\* Properties of check_newlines and of run_checks (specification
\* SpecNewlines: one function with any docstring made of NewlineParts)
\* ------------------------------------------------------------------------
NewlineParts ==
  {<<>>,
   <<" ">>,
   <<"x">>,
   <<"x", "\n">>,
   <<"[summary]">>,
   <<":", "yield", ":">>,
   <<":", "yield", ":", " ", "x">>,
   <<":", "param", " ", "x", ":", " ", "x">>,
   <<" ", ":", "rtype", ":", " ", "x">>,
   <<":", "param", " ", "x">>}

InitNewlines == \E parts \in BSeq(NewlineParts, MaxParts) : StartWith(OneDocstring(parts))

SpecNewlines == InitNewlines /\ [][Next]_vars

Lines(text) == Split(text, "\n")

\* a line that opens a field: one of the seven patterns matches at its start
IsFieldLine(line) ==
  \E n \in 1..Len(RegexNames) : Ends(regexes[RegexNames[n]], line, 1) # <<>>

OfCategory(errs, cat) == SelectSeq(errs, LAMBDA e : e.cat = cat)

Details(errs) == [n \in 1..Len(errs) |-> errs[n].detail]

NewlineDetails == Details(OfCategory(self.errors, "missing-newline-error"))

Unseparated(text) ==
  {i \in 2..Len(Lines(text)) :
     IsFieldLine(Lines(text)[i]) /\ Strip(Lines(text)[i - 1]) # <<>>}

FieldLinesAfterFirst(text) ==
  {i \in 2..Len(Lines(text)) : IsFieldLine(Lines(text)[i])}

\* C3 as claimed: when some field line directly follows a non-blank line,
\* check_newlines appends exactly one missing-newline-error, which names the
\* first such field line.
C3_FirstUnseparated ==
  (pc = "print_errors" /\ Unseparated(doc) # {}) =>
    NewlineDetails = <<Lines(doc)[Min(Unseparated(doc))]>>

\* C3 as amended: check_newlines looks only at the first field line that has
\* a line before it; it appends one missing-newline-error naming that line
\* when the line before it is non-blank, and nothing otherwise.
C3_FirstFieldOnly ==
  pc = "print_errors" =>
    NewlineDetails =
      IF FieldLinesAfterFirst(doc) = {} THEN <<>>
      ELSE LET i == Min(FieldLinesAfterFirst(doc))
           IN IF Strip(Lines(doc)[i - 1]) # <<>> THEN <<Lines(doc)[i]>> ELSE <<>>

C3_Witness ==
  /\ pc = "print_errors"
  /\ Cardinality(Unseparated(doc)) >= 2
  /\ Len(NewlineDetails) = 1

Rank(cat) ==
  CASE cat = "default-docstring-error" -> 1
    [] cat = "empty-docstring-error" -> 2
    [] cat = "missing-description-error" -> 3
    [] cat = "missing-newline-error" -> 4

\* C9: run_checks runs the four rules in the order placeholder-default,
\* empty-docstring, empty-field, missing-newline, whatever each finds, so the
\* diagnostics of a record are grouped by category in that order.
C9_RuleOrder ==
  /\ pc = "print_errors" =>
       ran = <<"check_defaults", "cehck_empty_docstring", "check_empty_fields",
               "check_newlines">>
  /\ \A n \in 1..Len(functions) :
       \A a, b \in 1..Len(functions[n].errors) :
         a < b => Rank(functions[n].errors[a].cat) <= Rank(functions[n].errors[b].cat)

C9_Witness ==
  /\ pc = "print_errors"
  /\ OfCategory(self.errors, "default-docstring-error") # <<>>
  /\ OfCategory(self.errors, "missing-description-error") # <<>>
  /\ OfCategory(self.errors, "missing-newline-error") # <<>>

InRule == pc \in {"check_defaults", "cehck_empty_docstring", "check_empty_fields",
                  "check_newlines", "print_errors"}

\* C10: no rule raises: every match of the two-line pattern of check_newlines
\* holds exactly one newline, so its split has two parts, and an empty or
\* whitespace-only docstring gets exactly one diagnostic, the
\* empty-docstring-error.
C10_NeverRaises ==
  /\ ~raised
  /\ pc # "traceback"
  /\ InRule =>
       \A m \in 1..Len(FindAll(NewlineRegex, doc)) :
         Count(FindAll(NewlineRegex, doc)[m].str, "\n") = 1
  /\ (pc = "print_errors" /\ Strip(doc) = <<>>) =>
       Details(self.errors) = <<<<"no docstring content">>>>

C10_Witness ==
  /\ pc = "print_errors"
  /\ Len(FindAll(NewlineRegex, doc)) >= 2
  /\ Len(Lines(doc)) >= 3

\* ------------------------------------------------------------------------
\* Properties of check_empty_fields (specification SpecFields)
\* ------------------------------------------------------------------------
FieldParts ==
  {<<>>,
   <<"x">>,
   <<":", "param", " ", "x", ":">>,
   <<":", "param", " ", "x", ":", " ", "x">>,
   <<":", "meta", " ", "x", ":">>,
   <<":", "returns", ":", " ">>,
   <<" ", ":", "type", " ", "x", ":">>,
   <<"x", " ", ":", "yield", ":">>,
   <<":", "raises", " ", "x", ":", " ", "x", ":">>}

InitFields == \E parts \in BSeq(FieldParts, MaxParts) : StartWith(OneDocstring(parts))

SpecFields == InitFields /\ [][Next]_vars

RECURSIVE LineStart(_, _)
LineStart(text, i) ==
  IF i = 1 THEN 1 ELSE LineStart(text, i - 1) + Len(Lines(text)[i - 1]) + 1

InLine(text, i, pos) ==
  pos >= LineStart(text, i) /\ pos <= LineStart(text, i) + Len(Lines(text)[i])

Blank(text, from) == \A j \in from..Len(text) : IsSpace(text[j])

\* the line opens a field of the tag and, after a colon that closes the
\* field, holds nothing but whitespace
EmptyField(tag, line) ==
  LET ends == Ends(regexes[tag], line, 1)
  IN \E n \in 1..Len(ends) : Blank(line, ends[n])

\* the same, the closing colon being the first colon that closes the field
StrictlyEmptyField(tag, line) ==
  LET ends == Ends(regexes[tag], line, 1)
  IN ends # <<>> /\ Blank(line, ends[Len(ends)])

Described == {"param", "type", "raises", "returns", "rtype", "yield"}

MissingIn(text, i) ==
  {n \in 1..Len(self.errors) :
     /\ self.errors[n].cat = "missing-description-error"
     /\ InLine(text, i, self.errors[n].pos)}

\* C4: check_empty_fields appends exactly one missing-description-error for
\* each line that opens a param, type, raises, returns, rtype or yield field
\* with nothing but whitespace after the closing colon, and none for a meta
\* field with empty content.
C4_EmptyFields ==
  pc = "print_errors" =>
    \A i \in 1..Len(Lines(doc)) :
      LET line == Lines(doc)[i]
      IN /\ (\E tag \in Described : EmptyField(tag, line)) =>
              /\ Cardinality(MissingIn(doc, i)) = 1
              /\ \A n \in MissingIn(doc, i) :
                   /\ self.errors[n].pos = LineStart(doc, i)
                   /\ Strip(self.errors[n].detail) = Strip(line)
         /\ EmptyField("meta", line) => MissingIn(doc, i) = {}

C4_Witness ==
  /\ pc = "print_errors"
  /\ \E i \in 1..Len(Lines(doc)) : EmptyField("meta", Lines(doc)[i])
  /\ \E i \in 1..Len(Lines(doc)) :
       /\ \E tag \in Described : EmptyField(tag, Lines(doc)[i])
       /\ Cardinality(MissingIn(doc, i)) = 1

\* C8: every missing-description-error is for a line that opens a field at
\* column zero and has nothing but whitespace after the field's closing
\* colon; a described field, an indented tag and a tag in the middle of a
\* line are never flagged.
C8_OnlyEmptyColumnZero ==
  pc = "print_errors" =>
    \A n \in 1..Len(self.errors) :
      self.errors[n].cat = "missing-description-error" =>
        \E i \in 1..Len(Lines(doc)) :
          /\ self.errors[n].pos = LineStart(doc, i)
          /\ \E tag \in Described : StrictlyEmptyField(tag, Lines(doc)[i])

\* ------------------------------------------------------------------------
\* Properties of check_defaults (specification SpecDefaults)
\* ------------------------------------------------------------------------
DefaultParts ==
  {<<>>,
   <<"[summary]">>,
   <<"[type]">>,
   <<":", "yield", ":", " ", "[description]">>,
   <<":", "yield", ":", " ", "[description]", " ", "x">>,
   <<":", "yield", ":", " ", "x", " ", "[description]">>,
   <<":", "param", " ", "x", ":", "[type]">>,
   <<":", "rtype", ":", " ", " ", "[type]", " ">>,
   <<"x", ":", " ", "[description]">>,
   <<"x", ":", " ", "x", ":", " ", "[description]">>}

InitDefaults == \E parts \in BSeq(DefaultParts, MaxParts) : StartWith(OneDocstring(parts))

SpecDefaults == InitDefaults /\ [][Next]_vars

Placeholders == {"[description]", "[type]"}

\* the diagnostics of check_defaults for the placeholder, found in line i
DefaultsIn(text, i, word) ==
  {n \in 1..Len(self.errors) :
     /\ self.errors[n].cat = "default-docstring-error"
     /\ self.errors[n].detail[Len(self.errors[n].detail)] = word
     /\ InLine(text, i, self.errors[n].pos)}

\* the line opens a field whose whole content, whitespace aside, is the word
ExactlyPlaceholder(line, word) ==
  \E n \in 1..Len(RegexNames) :
    LET ends == Ends(regexes[RegexNames[n]], line, 1)
    IN \E m \in 1..Len(ends) : Strip(SubSeq(line, ends[m], Len(line))) = <<word>>

\* the line holds a colon, then later a colon followed, after spaces only,
\* by the word
ColonPrefixed(line, word) ==
  \E a, b, c \in 1..Len(line) :
    /\ a < b /\ b < c
    /\ line[a] = ":" /\ line[b] = ":" /\ line[c] = word
    /\ \A j \in (b + 1)..(c - 1) : line[j] = " "

\* C5 as claimed: a line is flagged for [description] or [type] exactly when
\* it is a field line whose whole content after the closing colon,
\* whitespace aside, is the placeholder.
C5_ExactContent ==
  pc = "print_errors" =>
    \A i \in 1..Len(Lines(doc)) : \A word \in Placeholders :
      DefaultsIn(doc, i, word) # {} <=> ExactlyPlaceholder(Lines(doc)[i], word)

\* C5 as amended: a line gets one default-docstring-error for [description]
\* (for [type]) exactly when it holds a colon and later a colon that is
\* followed, after spaces only, by the placeholder, whatever follows the
\* placeholder and whether or not the line opens one of the seven fields.
C5_ColonPrefixed ==
  pc = "print_errors" =>
    \A i \in 1..Len(Lines(doc)) : \A word \in Placeholders :
      Cardinality(DefaultsIn(doc, i, word))
        = IF ColonPrefixed(Lines(doc)[i], word) THEN 1 ELSE 0

C5_Witness ==
  /\ pc = "print_errors"
  /\ \E i \in 1..Len(Lines(doc)) :
       /\ ~ExactlyPlaceholder(Lines(doc)[i], "[description]")
       /\ DefaultsIn(doc, i, "[description]") # {}
  /\ \E i \in 1..Len(Lines(doc)) :
       /\ ExactlyPlaceholder(Lines(doc)[i], "[type]")
       /\ DefaultsIn(doc, i, "[type]") # {}

\* ------------------------------------------------------------------------
\* test_regexes: re.match of one pattern of the table on one line
\* (specification SpecRegex)
\* ------------------------------------------------------------------------
MaxLineLen == 6

TestRegexes ==
  /\ ~test.done /\ test.name # ""
  /\ test' = [test EXCEPT !.done = TRUE,
                          !.matched = Match(regexes[test.name], test.line)]
  /\ UNCHANGED <<opts, pathIdx, paths, functions, idx, returncodes, errors, pc,
                 stdout, ret, status, ran, raised>>

InitRegex ==
  \E n \in 1..Len(RegexNames) :
    \E line \in BSeq({":", " ", "x", RegexNames[n]}, MaxLineLen) :
      /\ opts = <<>> /\ pathIdx = 1 /\ paths = <<>> /\ functions = <<>>
      /\ idx = 1 /\ returncodes = <<>> /\ errors = 0 /\ pc = "test_regexes"
      /\ stdout = <<>> /\ ret = PyNone /\ status = PyNone /\ ran = <<>>
      /\ raised = FALSE
      /\ test = [name |-> RegexNames[n], line |-> line, done |-> FALSE,
                 matched |-> FALSE]

NextRegex == TestRegexes

SpecRegex == InitRegex /\ [][NextRegex]_vars

\* the shapes of the Field Pattern Table
ProperShape(tag, line) ==
  /\ Len(line) >= 3 /\ line[1] = ":" /\ line[2] = tag
  /\ CASE tag \in {"param", "raises"} ->
            line[3] = " " /\ \E j \in 4..Len(line) : line[j] = ":"
       [] tag \in {"type", "meta"} ->
            /\ line[3] = " "
            /\ \E j \in 5..Len(line) :
                 line[j] = ":" /\ \A m \in 4..(j - 1) : ~IsSpace(line[m])
       [] OTHER -> line[3] = ":"

NeverClosed(tag, line) ==
  /\ Len(line) >= 2 /\ line[1] = ":" /\ line[2] = tag
  /\ \A j \in 3..Len(line) : line[j] # ":"

Indented(tag, line) ==
  \E m \in 1..Len(line) :
    /\ \A j \in 1..m : IsSpace(line[j])
    /\ ProperShape(tag, SubSeq(line, m + 1, Len(line)))

\* C7: each pattern, matched at the start of a line, accepts a line with the
\* tag at column zero in the proper shape, and rejects the same line after
\* leading whitespace and a line whose tag is never closed by a colon.
C7_Anchored ==
  test.done =>
    /\ ProperShape(test.name, test.line) => test.matched
    /\ Indented(test.name, test.line) => ~test.matched
    /\ NeverClosed(test.name, test.line) => ~test.matched

C7_Witness ==
  /\ test.done
  /\ test.name = "type"
  /\ Indented(test.name, test.line)
  /\ ~test.matched

====
